---- MODULE Spec2Model ----
(***************************************************************************)
(* Session / round / selector state machine of the VibeWare microgame      *)
(* collection: TitleScene, DebugMenuScene, TransitionScene and the         *)
(* BaseMicrogame round controller.                                         *)
(*                                                                         *)
(* Conventions                                                             *)
(*  - a microgame key is its 1-based position in MICROGAMES; NoKey (0)     *)
(*    stands for undefined / the empty string;                             *)
(*  - gameState.speed is kept in tenths (1.0 = 10, 0.2 = 2, 3.0 = 30) so   *)
(*    that the arithmetic is exact;                                        *)
(*  - times are milliseconds;                                              *)
(*  - recentGames is one variable: INITIAL_GAME_STATE.recentGames is a     *)
(*    single array object, and the spread copies made by TitleScene and    *)
(*    DebugMenuScene alias it.                                             *)
(***************************************************************************)
EXTENDS Integers, Sequences, FiniteSets, TLC

VARIABLES
    catalogSize,    \* MICROGAMES.length (fixed at startup)
    registered,     \* keys of MICROGAME_SCENES: the scenes scene.get() finds
    scene,          \* the running scene
    gameState,      \* TitleScene.gameState (the session state object)
    debugState,     \* the debugState object made by DebugMenuScene.launchGame
    recentGames,    \* the shared recentGames array
    cur,            \* which object BaseMicrogame.gameState refers to
    nextGameKey,    \* TransitionScene.nextGameKey
    lastGameWon,    \* TransitionScene.lastGameWon
    branch,         \* branch taken by the last showNextGameControls
    countdown,      \* the local `countdown` of TransitionScene.startCountdown
    repeatCount,    \* firings left of the countdown timer event
    countdownText,  \* number shown by countdownText (NoText: empty)
    transitionCalls, \* calls of transitionToGame in this TransitionScene run
    gameKey,        \* scene.key of the microgame being played
    hasWon,         \* BaseMicrogame.hasWon
    hasFailed,      \* BaseMicrogame.hasFailed
    gameEnded,      \* BaseMicrogame.gameEnded
    gameReady,      \* BaseMicrogame.gameReady
    timeRemaining,  \* BaseMicrogame.timeRemaining
    won,            \* the const `won` of endGame, captured by its delayed call
    timerActive,    \* gameTimer is scheduled on the scene's clock
    firstOutcome,   \* history: which of setWinState / setFailState took effect first
    cleanupCalls,   \* history: calls of cleanupControls in the current round
    timerRemoves,   \* history: calls of gameTimer.remove() in the current round
    successFeedback, \* history: runs of showSuccessFeedback in the current round
    failureFeedback, \* history: runs of showFailureFeedback in the current round
    sPresses,       \* SneezeGame.sPresses
    tween,          \* the chooText tween of SneezeGame.triggerSneeze
    tweenEnd,       \* timeRemaining at which that tween has run its duration
    hookOutsideActive \* history: onGameUpdate ran while the round was not active

vars == <<catalogSize, registered, scene, gameState, debugState, recentGames,
          cur, nextGameKey, lastGameWon, branch, countdown, repeatCount,
          countdownText, transitionCalls, gameKey, hasWon, hasFailed,
          gameEnded, gameReady, timeRemaining, won, timerActive, firstOutcome,
          cleanupCalls, timerRemoves, successFeedback, failureFeedback,
          sPresses, tween, tweenEnd, hookOutsideActive>>

selectorVars == <<nextGameKey, lastGameWon, branch, countdown, repeatCount,
                  countdownText, transitionCalls>>
roundVars == <<gameKey, hasWon, hasFailed, gameEnded, gameReady, timeRemaining,
               won, timerActive, firstOutcome, cleanupCalls, timerRemoves,
               successFeedback, failureFeedback, sPresses, tween, tweenEnd,
               hookOutsideActive>>
\* what endGame writes in the round
endVars == <<gameEnded, won, timerActive, cleanupCalls, timerRemoves>>
feedbackVars == <<successFeedback, failureFeedback>>
\* state of the modelled round logic (SneezeGame) and of the frame hook
gameVars == <<sPresses, tween, tweenEnd, hookOutsideActive>>

(***************************************************************************)
(* Bounds of the model                                                     *)
(***************************************************************************)
\* largest catalog explored by the selector specification
MaxCatalog == 7
\* catalog size used by the session specification
SessionCatalog == 3
\* rounds a player may win in the session specification
MaxWins == 56
\* rounds a player may win in the selector specification
SelMaxWins == 1
\* startGame is explored while lives > -MaxNegLives (session specification)
MaxNegLives == 1
\* granularity of the draws taken from [0, totalWeight)
RandomGrain == 10
\* getGameDuration() of the modelled rounds, in ms
GameDuration == 100
\* largest catalog explored by the registry specification
RegistryCatalog == 2
\* SneezeGame.WIN_THRESHOLD (10 in the code), scaled like the duration
WIN_THRESHOLD == 2
\* duration of the chooText tween (300 ms in the code), scaled likewise
SneezeTweenDuration == 50

(***************************************************************************)
(* Program constants                                                       *)
(***************************************************************************)
NoKey == 0
TimerDelay == 50
ScoreStep == 100
SpeedStep == 2
SpeedCap == 30
SpeedEvery == 5
MaxHistory == 3
UnplayedWeight == 100
AgeWeight == 20
DodgeWinWindow == 100
Absent == -1
CountdownStart == 3
CountdownRepeat == 3
NoText == 0

Min(a, b) == IF a <= b THEN a ELSE b

INITIAL_GAME_STATE ==
    [lives |-> 4, score |-> 0, speed |-> 10, gamesCompleted |-> 0,
     debugMode |-> FALSE, previousGameKey |-> NoKey]

MICROGAMES == 1..catalogSize

\* FlappyFeatherGame is the last entry of MICROGAME_METADATA
FlappyFeatherGame == catalogSize

\* a catalog of n entries stands for the first n - 1 entries of
\* MICROGAME_METADATA followed by its last one: DodgeGame is the 3rd entry,
\* SneezeGame the 5th
DodgeGame == IF catalogSize > 3 THEN 3 ELSE Absent

SneezeGame == IF catalogSize > 5 THEN 5 ELSE Absent

(***************************************************************************)
(* Round selector (TransitionScene.showNextGameControls)                   *)
(***************************************************************************)
HISTORY_SIZE == Min(MaxHistory, catalogSize \div 2)

\* mutant: the threshold of the specification text, 2 x historySize (+1)
FewGamesDoubled == catalogSize <= 2 * HISTORY_SIZE + 1

FewGames == catalogSize <= HISTORY_SIZE + 1

\* Array.prototype.indexOf, 0-based, -1 when absent
IndexOf(arr, key) ==
    IF \E i \in 1..Len(arr) : arr[i] = key
    THEN (CHOOSE i \in 1..Len(arr) :
              arr[i] = key /\ \A j \in 1..(i - 1) : arr[j] # key) - 1
    ELSE -1

\* mutant: age counted from 0, so the newest entry gets weight 0
WeightZeroForNewest(game, recent) ==
    LET recentIndex == IndexOf(recent, game) IN
    IF recentIndex = -1
    THEN UnplayedWeight
    ELSE (Len(recent) - recentIndex - 1) * AgeWeight

Weight(game, recent) ==
    LET recentIndex == IndexOf(recent, game) IN
    IF recentIndex = -1
    THEN UnplayedWeight
    ELSE (Len(recent) - recentIndex) * AgeWeight

RECURSIVE SumWeights(_, _)
SumWeights(i, recent) ==
    IF i > catalogSize THEN 0 ELSE Weight(i, recent) + SumWeights(i + 1, recent)

TotalWeight(recent) == SumWeights(1, recent)

\* the for-loop over gameWeights: first game at which the running value is <= 0
RECURSIVE PickFrom(_, _, _)
PickFrom(i, random, recent) ==
    IF i > catalogSize THEN NoKey
    ELSE LET r == random - Weight(i, recent) IN
         IF r <= 0 THEN i ELSE PickFrom(i + 1, r, recent)

\* Math.random() * totalWeight, sampled on a grid
Draws(recent) == {d \in 0..(TotalWeight(recent) - 1) : d % RandomGrain = 0}

\* mutant: the filter on previousGameKey is dropped
AvailableGamesUnfiltered(prev) == MICROGAMES

AvailableGames(prev) ==
    IF prev # NoKey /\ catalogSize > 1 THEN MICROGAMES \ {prev} ELSE MICROGAMES

\* keys showNextGameControls can assign to nextGameKey
Candidates(prev, recent) ==
    IF FewGames
    THEN AvailableGames(prev)
    ELSE UNION {LET g == PickFrom(1, d, recent) IN
                IF g = NoKey THEN MICROGAMES ELSE {g} : d \in Draws(recent)}

ShowNextGameControls(prev) ==
    IF catalogSize > 0
    THEN /\ \E g \in Candidates(prev, recentGames) : nextGameKey' = g
         /\ branch' = IF FewGames THEN "few" ELSE "weighted"
    ELSE UNCHANGED <<nextGameKey, branch>>

\* TransitionScene.startCountdown: a timer event with repeat: 3 fires
\* repeat + 1 times
StartCountdown ==
    /\ countdown' = CountdownStart
    /\ repeatCount' = CountdownRepeat + 1
    /\ countdownText' = NoText
    /\ transitionCalls' = 0

\* scene.start('TransitionScene', data): init(data) followed by create()
EnterTransition(lgw, prevKey) ==
    LET prev == IF prevKey # NoKey THEN prevKey ELSE gameState.previousGameKey IN
    /\ scene' = "TransitionScene"
    /\ lastGameWon' = lgw
    /\ gameState' = [gameState EXCEPT !.previousGameKey = prev]
    /\ ShowNextGameControls(prev)
    /\ StartCountdown

\* mutant: the bounded shift drops the entry just pushed
PushRecentDropNewest(recent, key) ==
    LET pushed == Append(recent, key) IN
    IF Len(pushed) > HISTORY_SIZE THEN SubSeq(pushed, 1, Len(pushed) - 1) ELSE pushed

\* recentGames.push(key) followed by the bounded shift()
PushRecent(recent, key) ==
    LET pushed == Append(recent, key) IN
    IF Len(pushed) > HISTORY_SIZE THEN Tail(pushed) ELSE pushed

(***************************************************************************)
(* Round controller (BaseMicrogame)                                        *)
(***************************************************************************)
CurState == IF cur = "debug" THEN debugState ELSE gameState

\* mutant: init keeps the hasFailed flag of the previous round
MicrogameInitKeepsFailed(key) ==
    /\ scene' = "Microgame"
    /\ gameKey' = key
    /\ hasWon' = FALSE
    /\ gameEnded' = FALSE
    /\ gameReady' = FALSE
    /\ timeRemaining' = GameDuration
    /\ firstOutcome' = "none"
    /\ cleanupCalls' = 0
    /\ timerRemoves' = 0
    /\ successFeedback' = 0
    /\ failureFeedback' = 0
    /\ sPresses' = 0
    /\ tween' = "none"
    /\ tweenEnd' = 0
    /\ UNCHANGED <<hasFailed, won, timerActive, hookOutsideActive>>

\* BaseMicrogame.init for the scene `key`
MicrogameInit(key) ==
    /\ scene' = "Microgame"
    /\ gameKey' = key
    /\ hasWon' = FALSE
    /\ hasFailed' = FALSE
    /\ gameEnded' = FALSE
    /\ gameReady' = FALSE
    /\ timeRemaining' = GameDuration
    /\ firstOutcome' = "none"
    /\ cleanupCalls' = 0
    /\ timerRemoves' = 0
    /\ successFeedback' = 0
    /\ failureFeedback' = 0
    /\ sPresses' = 0
    /\ tween' = "none"
    /\ tweenEnd' = 0
    /\ UNCHANGED <<won, timerActive, hookOutsideActive>>

\* mutant: a round without a declared fail counts as won
WonUnlessFailed(hw, hf) == ~hf

\* mutant: a later fail does not revoke a declared win
WonIgnoringFail(hw, hf) == hw

Won(hw, hf) == hw /\ ~hf

\* mutant: gamesCompleted counts every round played
ResolveCountingAllRounds(gs, w) ==
    IF w
    THEN LET completed == gs.gamesCompleted + 1 IN
         [gs EXCEPT !.score = gs.score + ScoreStep,
                    !.gamesCompleted = completed,
                    !.speed = IF completed > 0 /\ completed % SpeedEvery = 0
                              THEN Min(gs.speed + SpeedStep, SpeedCap)
                              ELSE gs.speed]
    ELSE [gs EXCEPT !.lives = gs.lives - 1,
                    !.gamesCompleted = gs.gamesCompleted + 1]

\* mutant: the speed step is not capped
ResolveUncapped(gs, w) ==
    IF w
    THEN LET completed == gs.gamesCompleted + 1 IN
         [gs EXCEPT !.score = gs.score + ScoreStep,
                    !.gamesCompleted = completed,
                    !.speed = IF completed > 0 /\ completed % SpeedEvery = 0
                              THEN gs.speed + SpeedStep
                              ELSE gs.speed]
    ELSE [gs EXCEPT !.lives = gs.lives - 1]

\* mutant: the speed steps on every win
ResolveSpeedEveryWin(gs, w) ==
    IF w
    THEN LET completed == gs.gamesCompleted + 1 IN
         [gs EXCEPT !.score = gs.score + ScoreStep,
                    !.gamesCompleted = completed,
                    !.speed = Min(gs.speed + SpeedStep, SpeedCap)]
    ELSE [gs EXCEPT !.lives = gs.lives - 1]

\* mutant: a failed round also takes 100 from the score
ResolveLosingScore(gs, w) ==
    IF w
    THEN LET completed == gs.gamesCompleted + 1 IN
         [gs EXCEPT !.score = gs.score + ScoreStep,
                    !.gamesCompleted = completed,
                    !.speed = IF completed > 0 /\ completed % SpeedEvery = 0
                              THEN Min(gs.speed + SpeedStep, SpeedCap)
                              ELSE gs.speed]
    ELSE [gs EXCEPT !.lives = gs.lives - 1, !.score = gs.score - ScoreStep]

\* the session-state update of endGame
Resolve(gs, w) ==
    IF w
    THEN LET completed == gs.gamesCompleted + 1 IN
         [gs EXCEPT !.score = gs.score + ScoreStep,
                    !.gamesCompleted = completed,
                    !.speed = IF completed > 0 /\ completed % SpeedEvery = 0
                              THEN Min(gs.speed + SpeedStep, SpeedCap)
                              ELSE gs.speed]
    ELSE [gs EXCEPT !.lives = gs.lives - 1]

\* mutant: endGame does not remove the gameTimer
EndGameKeepsTimer ==
    /\ gameEnded' = TRUE
    /\ UNCHANGED <<timerActive, timerRemoves>>
    /\ cleanupCalls' = cleanupCalls + 1
    /\ won' = Won(hasWon, hasFailed)
    /\ IF cur = "debug"
       THEN /\ debugState' = Resolve(debugState, Won(hasWon, hasFailed))
            /\ UNCHANGED gameState
       ELSE /\ gameState' = Resolve(gameState, Won(hasWon, hasFailed))
            /\ UNCHANGED debugState

\* BaseMicrogame.endGame, entered with gameEnded = FALSE
EndGame ==
    /\ gameEnded' = TRUE
    /\ timerActive' = FALSE
    /\ timerRemoves' = timerRemoves + 1
    /\ cleanupCalls' = cleanupCalls + 1
    /\ won' = Won(hasWon, hasFailed)
    /\ IF cur = "debug"
       THEN /\ debugState' = Resolve(debugState, Won(hasWon, hasFailed))
            /\ UNCHANGED gameState
       ELSE /\ gameState' = Resolve(gameState, Won(hasWon, hasFailed))
            /\ UNCHANGED debugState

(***************************************************************************)
(* Actions                                                                 *)
(***************************************************************************)
\* the state after the scenes are constructed, for a catalog of `sizes` and
\* registered scene sets drawn by `scenes`
Boot ==
    /\ scene = "TitleScene"
    /\ gameState = INITIAL_GAME_STATE
    /\ debugState = [INITIAL_GAME_STATE EXCEPT !.debugMode = TRUE]
    /\ recentGames = <<>>
    /\ cur = "title"
    /\ nextGameKey = NoKey
    /\ lastGameWon = TRUE
    /\ branch = "none"
    /\ countdown = 0
    /\ repeatCount = 0
    /\ countdownText = NoText
    /\ transitionCalls = 0
    /\ gameKey = NoKey
    /\ hasWon = FALSE
    /\ hasFailed = FALSE
    /\ gameEnded = FALSE
    /\ gameReady = FALSE
    /\ timeRemaining = 5000
    /\ won = FALSE
    /\ timerActive = FALSE
    /\ firstOutcome = "none"
    /\ cleanupCalls = 0
    /\ timerRemoves = 0
    /\ successFeedback = 0
    /\ failureFeedback = 0
    /\ sPresses = 0
    /\ tween = "none"
    /\ tweenEnd = 0
    /\ hookOutsideActive = FALSE

Init ==
    /\ catalogSize = SessionCatalog
    /\ registered = MICROGAMES
    /\ Boot

\* TitleScene.startGame (and the zoom tween's onComplete)
StartGame(negLives) ==
    /\ scene = "TitleScene"
    /\ gameState.lives > -negLives
    /\ EnterTransition(TRUE, NoKey)
    /\ UNCHANGED <<catalogSize, registered, debugState, recentGames, cur>>
    /\ UNCHANGED roundVars

\* TitleScene.openDebugMenu
OpenDebugMenu ==
    /\ scene = "TitleScene"
    /\ scene' = "DebugMenuScene"
    /\ UNCHANGED <<catalogSize, registered, gameState, debugState, recentGames, cur>>
    /\ UNCHANGED selectorVars
    /\ UNCHANGED roundVars

\* DebugMenuScene: back button / ESC
DebugBack ==
    /\ scene = "DebugMenuScene"
    /\ scene' = "TitleScene"
    /\ UNCHANGED <<catalogSize, registered, gameState, debugState, recentGames, cur>>
    /\ UNCHANGED selectorVars
    /\ UNCHANGED roundVars

\* DebugMenuScene.launchGame(gameKey); scene.start of a key without a scene
\* stops the menu and starts nothing
LaunchGame ==
    /\ scene = "DebugMenuScene"
    /\ \E key \in MICROGAMES :
          /\ debugState' = [INITIAL_GAME_STATE EXCEPT !.debugMode = TRUE]
          /\ IF key \in registered
             THEN /\ cur' = "debug"
                  /\ MicrogameInit(key)
             ELSE /\ scene' = "NoScene"
                  /\ UNCHANGED cur
                  /\ UNCHANGED roundVars
    /\ UNCHANGED <<catalogSize, registered, gameState, recentGames>>
    /\ UNCHANGED selectorVars

\* mutant: transitionToGame is called instead of showing 1
CountdownTickSkippingOne ==
    /\ scene = "TransitionScene"
    /\ repeatCount > 0
    /\ repeatCount' = repeatCount - 1
    /\ IF countdown > 1
       THEN /\ countdownText' = countdown
            /\ countdown' = countdown - 1
            /\ UNCHANGED transitionCalls
       ELSE /\ transitionCalls' = transitionCalls + 1
            /\ UNCHANGED <<countdown, countdownText>>
    /\ UNCHANGED <<catalogSize, registered, scene, gameState, debugState,
                   recentGames, cur, nextGameKey, lastGameWon, branch>>
    /\ UNCHANGED roundVars

\* TransitionScene.startCountdown: one firing of the countdown timer event
CountdownTick ==
    /\ scene = "TransitionScene"
    /\ repeatCount > 0
    /\ repeatCount' = repeatCount - 1
    /\ IF countdown > 0
       THEN /\ countdownText' = countdown
            /\ countdown' = countdown - 1
            /\ UNCHANGED transitionCalls
       ELSE /\ transitionCalls' = transitionCalls + 1
            /\ UNCHANGED <<countdown, countdownText>>
    /\ UNCHANGED <<catalogSize, registered, scene, gameState, debugState,
                   recentGames, cur, nextGameKey, lastGameWon, branch>>
    /\ UNCHANGED roundVars

\* mutant: the selected key is started without asking scene.get()
TransitionToGameUnchecked ==
    /\ scene = "TransitionScene"
    /\ transitionCalls > 0
    /\ IF nextGameKey # NoKey
       THEN /\ recentGames' = PushRecent(recentGames, nextGameKey)
            /\ gameState' = [gameState EXCEPT !.previousGameKey = nextGameKey]
            /\ cur' = "title"
            /\ MicrogameInit(nextGameKey)
       ELSE /\ scene' = "TitleScene"
            /\ UNCHANGED <<gameState, recentGames, cur>>
            /\ UNCHANGED roundVars
    /\ UNCHANGED <<catalogSize, registered, debugState>>
    /\ UNCHANGED selectorVars

\* mutant: previousGameKey is not updated when the round starts
TransitionToGameStalePrevious ==
    /\ scene = "TransitionScene"
    /\ transitionCalls > 0
    /\ IF nextGameKey # NoKey /\ nextGameKey \in registered
       THEN /\ recentGames' = PushRecent(recentGames, nextGameKey)
            /\ UNCHANGED gameState
            /\ cur' = "title"
            /\ MicrogameInit(nextGameKey)
       ELSE /\ scene' = "TitleScene"
            /\ UNCHANGED <<gameState, recentGames, cur>>
            /\ UNCHANGED roundVars
    /\ UNCHANGED <<catalogSize, registered, debugState>>
    /\ UNCHANGED selectorVars

\* TransitionScene.transitionToGame: the delayed call it schedules and the
\* flash tween's onComplete
TransitionToGame ==
    /\ scene = "TransitionScene"
    /\ transitionCalls > 0
    /\ IF nextGameKey # NoKey /\ nextGameKey \in registered
       THEN /\ recentGames' = PushRecent(recentGames, nextGameKey)
            /\ gameState' = [gameState EXCEPT !.previousGameKey = nextGameKey]
            /\ cur' = "title"
            /\ MicrogameInit(nextGameKey)
       ELSE /\ scene' = "TitleScene"
            /\ UNCHANGED <<gameState, recentGames, cur>>
            /\ UNCHANGED roundVars
    /\ UNCHANGED <<catalogSize, registered, debugState>>
    /\ UNCHANGED selectorVars

\* BaseMicrogame.create: the delayedCall(1000) callback (setupGame,
\* setupControls, startTimer, gameReady = true)
SetupRound ==
    /\ scene = "Microgame"
    /\ ~gameReady
    /\ gameReady' = TRUE
    /\ timerActive' = TRUE
    /\ UNCHANGED <<catalogSize, registered, scene, gameState, debugState,
                   recentGames, cur>>
    /\ UNCHANGED selectorVars
    /\ UNCHANGED <<gameKey, hasWon, hasFailed, gameEnded, timeRemaining, won,
                   firstOutcome, cleanupCalls, timerRemoves>>
    /\ UNCHANGED feedbackVars
    /\ UNCHANGED gameVars

\* mutant: at zero the timer only stops, endGame is not called
TimerTickExpiresSilently ==
    /\ scene = "Microgame"
    /\ timerActive
    /\ timeRemaining' = timeRemaining - TimerDelay
    /\ timerActive' = (timeRemaining - TimerDelay > 0)
    /\ UNCHANGED <<gameEnded, won, cleanupCalls, timerRemoves, gameState,
                   debugState>>
    /\ UNCHANGED <<catalogSize, registered, scene, recentGames, cur>>
    /\ UNCHANGED selectorVars
    /\ UNCHANGED <<gameKey, hasWon, hasFailed, gameReady, firstOutcome>>
    /\ UNCHANGED feedbackVars
    /\ UNCHANGED gameVars

\* BaseMicrogame.startTimer: one firing of the 50 ms gameTimer
TimerTick ==
    /\ scene = "Microgame"
    /\ timerActive
    /\ timeRemaining' = timeRemaining - TimerDelay
    /\ IF timeRemaining - TimerDelay <= 0 /\ ~gameEnded
       THEN EndGame
       ELSE UNCHANGED <<endVars, gameState, debugState>>
    /\ UNCHANGED <<catalogSize, registered, scene, recentGames, cur>>
    /\ UNCHANGED selectorVars
    /\ UNCHANGED <<gameKey, hasWon, hasFailed, gameReady, firstOutcome>>
    /\ UNCHANGED feedbackVars
    /\ UNCHANGED gameVars

\* mutant: the score is added as soon as the win is declared
SetWinStateScoring(maxWins) ==
    /\ scene = "Microgame"
    /\ gameReady
    /\ gameKey \notin {DodgeGame, SneezeGame, FlappyFeatherGame}
    /\ CurState.gamesCompleted < maxWins
    /\ IF ~gameEnded /\ ~hasWon
       THEN /\ hasWon' = TRUE
            /\ successFeedback' = successFeedback + 1
            /\ firstOutcome' = IF firstOutcome = "none" THEN "win" ELSE firstOutcome
            /\ IF cur = "debug"
               THEN /\ debugState' = [debugState EXCEPT !.score = @ + ScoreStep]
                    /\ UNCHANGED gameState
               ELSE /\ gameState' = [gameState EXCEPT !.score = @ + ScoreStep]
                    /\ UNCHANGED debugState
       ELSE UNCHANGED <<hasWon, firstOutcome, successFeedback, gameState,
                        debugState>>
    /\ UNCHANGED <<catalogSize, registered, scene, recentGames, cur>>
    /\ UNCHANGED selectorVars
    /\ UNCHANGED <<gameKey, hasFailed, gameReady, timeRemaining, failureFeedback>>
    /\ UNCHANGED endVars
    /\ UNCHANGED gameVars

\* BaseMicrogame.setWinState, called by the logic of a round other than
\* DodgeGame, SneezeGame and FlappyFeatherGame (whose calls are modelled)
SetWinState(maxWins) ==
    /\ scene = "Microgame"
    /\ gameReady
    /\ gameKey \notin {DodgeGame, SneezeGame, FlappyFeatherGame}
    /\ CurState.gamesCompleted < maxWins
    /\ IF ~gameEnded /\ ~hasWon
       THEN /\ hasWon' = TRUE
            /\ successFeedback' = successFeedback + 1
            /\ firstOutcome' = IF firstOutcome = "none" THEN "win" ELSE firstOutcome
       ELSE UNCHANGED <<hasWon, firstOutcome, successFeedback>>
    /\ UNCHANGED <<catalogSize, registered, scene, gameState, debugState,
                   recentGames, cur>>
    /\ UNCHANGED selectorVars
    /\ UNCHANGED <<gameKey, hasFailed, gameReady, timeRemaining, failureFeedback>>
    /\ UNCHANGED endVars
    /\ UNCHANGED gameVars

\* mutant: declaring a fail clears a declared win
SetFailStateExclusive ==
    /\ scene = "Microgame"
    /\ gameReady
    /\ gameKey \notin {SneezeGame, FlappyFeatherGame}
    /\ IF ~gameEnded /\ ~hasFailed
       THEN /\ hasFailed' = TRUE
            /\ hasWon' = FALSE
            /\ failureFeedback' = failureFeedback + 1
            /\ firstOutcome' = IF firstOutcome = "none" THEN "fail" ELSE firstOutcome
       ELSE UNCHANGED <<hasWon, hasFailed, firstOutcome, failureFeedback>>
    /\ UNCHANGED <<catalogSize, registered, scene, gameState, debugState,
                   recentGames, cur>>
    /\ UNCHANGED selectorVars
    /\ UNCHANGED <<gameKey, gameReady, timeRemaining, successFeedback>>
    /\ UNCHANGED endVars
    /\ UNCHANGED gameVars

\* BaseMicrogame.setFailState, called by round logic (DodgeGame.handleHit
\* included; SneezeGame never calls it, FlappyFeatherGame calls it in
\* FlappyOutOfBounds)
SetFailState ==
    /\ scene = "Microgame"
    /\ gameReady
    /\ gameKey \notin {SneezeGame, FlappyFeatherGame}
    /\ IF ~gameEnded /\ ~hasFailed
       THEN /\ hasFailed' = TRUE
            /\ failureFeedback' = failureFeedback + 1
            /\ firstOutcome' = IF firstOutcome = "none" THEN "fail" ELSE firstOutcome
       ELSE UNCHANGED <<hasFailed, firstOutcome, failureFeedback>>
    /\ UNCHANGED <<catalogSize, registered, scene, gameState, debugState,
                   recentGames, cur>>
    /\ UNCHANGED selectorVars
    /\ UNCHANGED <<gameKey, hasWon, gameReady, timeRemaining, successFeedback>>
    /\ UNCHANGED endVars
    /\ UNCHANGED gameVars

\* mutant: setWinState does not look at gameEnded
setWinStateUnguarded ==
    IF ~hasWon
    THEN /\ hasWon' = TRUE
         /\ successFeedback' = successFeedback + 1
         /\ firstOutcome' = IF firstOutcome = "none" THEN "win" ELSE firstOutcome
    ELSE UNCHANGED <<hasWon, firstOutcome, successFeedback>>

\* BaseMicrogame.setWinState, as called by the modelled round logic
setWinState ==
    IF ~gameEnded /\ ~hasWon
    THEN /\ hasWon' = TRUE
         /\ successFeedback' = successFeedback + 1
         /\ firstOutcome' = IF firstOutcome = "none" THEN "win" ELSE firstOutcome
    ELSE UNCHANGED <<hasWon, firstOutcome, successFeedback>>

\* onGameUpdate of the current round with nothing hit and the feather in
\* bounds: DodgeGame and FlappyFeatherGame test for the win, the hooks of
\* the other rounds declare nothing here
OnGameUpdate ==
    /\ hookOutsideActive' = (hookOutsideActive \/ gameEnded \/ ~gameReady)
    /\ IF \/ /\ gameKey = DodgeGame
             /\ timeRemaining <= DodgeWinWindow /\ ~hasFailed /\ ~hasWon
          \/ /\ gameKey = FlappyFeatherGame
             /\ ~hasFailed /\ timeRemaining <= 0
       THEN setWinState
       ELSE UNCHANGED <<hasWon, firstOutcome, successFeedback>>

\* mutant: update calls the hook in every frame
FrameUpdateUnguarded(maxWins) ==
    /\ scene = "Microgame"
    /\ CurState.gamesCompleted < maxWins
    /\ OnGameUpdate
    /\ UNCHANGED <<catalogSize, registered, scene, gameState, debugState,
                   recentGames, cur>>
    /\ UNCHANGED selectorVars
    /\ UNCHANGED <<gameKey, hasFailed, gameReady, timeRemaining,
                   failureFeedback, sPresses, tween, tweenEnd>>
    /\ UNCHANGED endVars

\* BaseMicrogame.update: one frame of the running microgame scene
FrameUpdate(maxWins) ==
    /\ scene = "Microgame"
    /\ CurState.gamesCompleted < maxWins
    /\ IF ~gameEnded /\ gameReady
       THEN OnGameUpdate
       ELSE UNCHANGED <<hasWon, firstOutcome, successFeedback,
                        hookOutsideActive>>
    /\ UNCHANGED <<catalogSize, registered, scene, gameState, debugState,
                   recentGames, cur>>
    /\ UNCHANGED selectorVars
    /\ UNCHANGED <<gameKey, hasFailed, gameReady, timeRemaining,
                   failureFeedback, sPresses, tween, tweenEnd>>
    /\ UNCHANGED endVars

\* SneezeGame.handleSPress (the S key listener set by setupControls and
\* removed by cleanupControls); presses after the one that reaches
\* WIN_THRESHOLD only start further tweens of the same kind
HandleSPress ==
    /\ scene = "Microgame"
    /\ gameKey = SneezeGame
    /\ gameReady
    /\ ~gameEnded
    /\ sPresses < WIN_THRESHOLD
    /\ sPresses' = sPresses + 1
    /\ IF sPresses + 1 >= WIN_THRESHOLD
       THEN /\ tween' = "running"
            /\ tweenEnd' = timeRemaining - SneezeTweenDuration
       ELSE UNCHANGED <<tween, tweenEnd>>
    /\ UNCHANGED <<catalogSize, registered, scene, gameState, debugState,
                   recentGames, cur>>
    /\ UNCHANGED selectorVars
    /\ UNCHANGED <<gameKey, hasWon, hasFailed, gameReady, timeRemaining,
                   firstOutcome, hookOutsideActive>>
    /\ UNCHANGED feedbackVars
    /\ UNCHANGED endVars

\* SneezeGame.triggerSneeze: onComplete of the chooText tween, once its
\* duration has passed (the scene keeps running its tweens after endGame,
\* when the countdown no longer moves)
SneezeTweenComplete(maxWins) ==
    /\ scene = "Microgame"
    /\ CurState.gamesCompleted < maxWins
    /\ gameKey = SneezeGame
    /\ tween = "running"
    /\ timeRemaining <= tweenEnd \/ gameEnded
    /\ tween' = "complete"
    /\ setWinState
    /\ UNCHANGED <<catalogSize, registered, scene, gameState, debugState,
                   recentGames, cur>>
    /\ UNCHANGED selectorVars
    /\ UNCHANGED <<gameKey, hasFailed, gameReady, timeRemaining,
                   failureFeedback, sPresses, tweenEnd, hookOutsideActive>>
    /\ UNCHANGED endVars

\* FlappyFeatherGame.onGameUpdate with the feather out of bounds: a frame
\* update (BaseMicrogame.update: !gameEnded && gameReady) that calls
\* showFailureFeedback() itself and then setFailState()
FlappyOutOfBounds ==
    /\ scene = "Microgame"
    /\ gameKey = FlappyFeatherGame
    /\ gameReady
    /\ ~gameEnded
    /\ ~hasFailed
    /\ hasFailed' = TRUE
    /\ failureFeedback' = failureFeedback + 2
    /\ firstOutcome' = IF firstOutcome = "none" THEN "fail" ELSE firstOutcome
    /\ UNCHANGED <<catalogSize, registered, scene, gameState, debugState,
                   recentGames, cur>>
    /\ UNCHANGED selectorVars
    /\ UNCHANGED <<gameKey, hasWon, gameReady, timeRemaining, successFeedback>>
    /\ UNCHANGED endVars
    /\ UNCHANGED gameVars

\* mutant: the debug flag is not consulted when the round is left
LeaveRoundIgnoringDebug ==
    /\ scene = "Microgame"
    /\ gameEnded
    /\ IF CurState.lives <= 0
       THEN /\ scene' = "TitleScene"
            /\ UNCHANGED gameState
            /\ UNCHANGED selectorVars
       ELSE EnterTransition(won, gameKey)
    /\ timerActive' = FALSE
    /\ UNCHANGED <<catalogSize, registered, debugState, recentGames, cur>>
    /\ UNCHANGED <<gameKey, hasWon, hasFailed, gameEnded, gameReady,
                   timeRemaining, won, firstOutcome, cleanupCalls, timerRemoves>>
    /\ UNCHANGED feedbackVars
    /\ UNCHANGED gameVars

\* BaseMicrogame.endGame: the delayedCall(500) callback; stopping the scene
\* shuts its clock down
LeaveRound ==
    /\ scene = "Microgame"
    /\ gameEnded
    /\ IF CurState.debugMode \/ CurState.lives <= 0
       THEN /\ scene' = "TitleScene"
            /\ UNCHANGED gameState
            /\ UNCHANGED selectorVars
       ELSE EnterTransition(won, gameKey)
    /\ timerActive' = FALSE
    /\ UNCHANGED <<catalogSize, registered, debugState, recentGames, cur>>
    /\ UNCHANGED <<gameKey, hasWon, hasFailed, gameEnded, gameReady,
                   timeRemaining, won, firstOutcome, cleanupCalls, timerRemoves>>
    /\ UNCHANGED feedbackVars
    /\ UNCHANGED gameVars

Next ==
    \/ StartGame(MaxNegLives)
    \/ OpenDebugMenu
    \/ DebugBack
    \/ LaunchGame
    \/ CountdownTick
    \/ TransitionToGame
    \/ SetupRound
    \/ TimerTick
    \/ SetWinState(MaxWins)
    \/ SetFailState
    \/ FrameUpdate(MaxWins)
    \/ FlappyOutOfBounds
    \/ LeaveRound

Spec == Init /\ [][Next]_vars

(***************************************************************************)
(* Selector specification: every catalog size, short sessions              *)
(***************************************************************************)
InitSelector ==
    /\ catalogSize \in 0..MaxCatalog
    /\ registered = MICROGAMES
    /\ Boot

NextSelector ==
    \/ StartGame(0)
    \/ OpenDebugMenu
    \/ DebugBack
    \/ LaunchGame
    \/ CountdownTick
    \/ TransitionToGame
    \/ SetupRound
    \/ TimerTick
    \/ SetWinState(SelMaxWins)
    \/ SetFailState
    \/ FrameUpdate(SelMaxWins)
    \/ HandleSPress
    \/ SneezeTweenComplete(SelMaxWins)
    \/ FlappyOutOfBounds
    \/ LeaveRound

SpecSelector == InitSelector /\ [][NextSelector]_vars

(***************************************************************************)
(* Registry specification: small catalogs whose entries need not have a    *)
(* registered scene                                                        *)
(***************************************************************************)
InitRegistry ==
    /\ catalogSize \in 0..RegistryCatalog
    /\ registered \in SUBSET MICROGAMES
    /\ Boot

NextRegistry ==
    \/ StartGame(0)
    \/ OpenDebugMenu
    \/ DebugBack
    \/ LaunchGame
    \/ CountdownTick
    \/ TransitionToGame
    \/ SetupRound
    \/ TimerTick
    \/ SetWinState(SelMaxWins)
    \/ SetFailState
    \/ FrameUpdate(SelMaxWins)
    \/ FlappyOutOfBounds
    \/ LeaveRound

SpecRegistry == InitRegistry /\ [][NextRegistry]_vars

(***************************************************************************)
(* Fair specification: a session on the catalog of Spec in which the       *)
(* engine keeps running the scheduled callbacks of a round                 *)
(***************************************************************************)
NextLive ==
    \/ StartGame(0)
    \/ OpenDebugMenu
    \/ DebugBack
    \/ LaunchGame
    \/ CountdownTick
    \/ TransitionToGame
    \/ SetupRound
    \/ TimerTick
    \/ SetWinState(SelMaxWins)
    \/ SetFailState
    \/ FrameUpdate(SelMaxWins)
    \/ FlappyOutOfBounds
    \/ LeaveRound

SpecLive ==
    /\ Init
    /\ [][NextLive]_vars
    /\ WF_vars(SetupRound)
    /\ WF_vars(TimerTick)
    /\ WF_vars(LeaveRound)

(***************************************************************************)
(* Helpers of the properties                                               *)
(***************************************************************************)
\* a step in which endGame resolves the round
Resolving == ~gameEnded /\ gameEnded'

\* a step in which BaseMicrogame.init starts a round
RoundStarting ==
    /\ scene' = "Microgame"
    /\ ~hasWon' /\ ~hasFailed' /\ ~gameEnded' /\ ~gameReady'
    /\ timeRemaining' = GameDuration

Progress(gs) == <<gs.lives, gs.score, gs.gamesCompleted>>

FreshDebugState == [INITIAL_GAME_STATE EXCEPT !.debugMode = TRUE]

(***************************************************************************)
(* Session properties (specification Spec)                                 *)
(***************************************************************************)
\* C1: in every reachable state, over any sequence of starts, rounds,
\* game-overs and restarts, lives of the session state is >= 0.
LivesNonNegative ==
    gameState.lives >= 0 /\ debugState.lives >= 0

\* C2: in non-debug play a finished round hands control to TitleScene if and
\* only if the round was failed and lives is 0 after the decrement; a won
\* round always continues to TransitionScene.
SessionEndsIffOutOfLives ==
    [][(scene = "Microgame" /\ scene' # "Microgame" /\ ~CurState.debugMode)
         => /\ (scene' = "TitleScene") <=> (~won /\ gameState.lives = 0)
            /\ won => scene' = "TransitionScene"]_vars

RoundResolvedOnce ==
    [][/\ Resolving =>
            /\ cur' = cur
            /\ IF hasWon /\ ~hasFailed
               THEN Progress(CurState') =
                        <<CurState.lives, CurState.score + ScoreStep,
                          CurState.gamesCompleted + 1>>
               ELSE Progress(CurState') =
                        <<CurState.lives - 1, CurState.score,
                          CurState.gamesCompleted>>
       /\ Progress(gameState') # Progress(gameState) =>
            (Resolving /\ cur = "title" /\ debugState' = debugState)
       /\ Progress(debugState') # Progress(debugState) =>
            \/ Resolving /\ cur = "debug" /\ gameState' = gameState
            \/ scene = "DebugMenuScene" /\ debugState' = FreshDebugState]_vars

OneWinOneFailResolved ==
    /\ scene = "Microgame" /\ gameEnded /\ cur = "title"
    /\ gameState.score = 100 /\ gameState.gamesCompleted = 1
    /\ gameState.lives = 3

\* C6: speed rises by 0.2 exactly on a win that makes gamesCompleted a
\* positive multiple of 5 (unless already at the cap) and on no other step,
\* never exceeds 3.0, never decreases and stays within [1, 3].
SpeedSteps ==
    /\ [](/\ gameState.speed >= 10 /\ gameState.speed <= SpeedCap
          /\ debugState.speed >= 10 /\ debugState.speed <= SpeedCap)
    /\ [][/\ gameState'.speed >= gameState.speed
          /\ debugState'.speed >= debugState.speed
          /\ (gameState'.speed # gameState.speed
                 \/ debugState'.speed # debugState.speed) =>
                /\ Resolving /\ hasWon /\ ~hasFailed /\ cur' = cur
                /\ CurState'.gamesCompleted = CurState.gamesCompleted + 1
                /\ CurState'.gamesCompleted > 0
                /\ CurState'.gamesCompleted % SpeedEvery = 0
                /\ CurState'.speed = CurState.speed + SpeedStep
          /\ (/\ Resolving /\ hasWon /\ ~hasFailed
              /\ (CurState.gamesCompleted + 1) % SpeedEvery = 0) =>
                /\ cur' = cur
                /\ CurState'.speed =
                       IF CurState.speed = SpeedCap THEN SpeedCap
                       ELSE CurState.speed + SpeedStep
          /\ (gameState'.speed # gameState.speed) => cur = "title"
          /\ (debugState'.speed # debugState.speed) => cur = "debug"]_vars

SpeedHeldAtCap ==
    /\ gameState.gamesCompleted = 55
    /\ gameState.speed = SpeedCap
    /\ gameEnded /\ won

\* C7: every session started from the title screen, also after a game over,
\* begins with lives 4, score 0, speed 1, gamesCompleted 0 and an empty
\* recent-games history.
SessionStartsInitial ==
    [][(scene = "TitleScene" /\ scene' = "TransitionScene")
         => /\ gameState'.lives = INITIAL_GAME_STATE.lives
            /\ gameState'.score = INITIAL_GAME_STATE.score
            /\ gameState'.speed = INITIAL_GAME_STATE.speed
            /\ gameState'.gamesCompleted = INITIAL_GAME_STATE.gamesCompleted
            /\ recentGames' = <<>>]_vars

(***************************************************************************)
(* Selector properties (specification SpecSelector)                        *)
(***************************************************************************)
\* TransitionScene has just selected nextGameKey for a non-empty catalog
Selected == scene = "TransitionScene" /\ catalogSize > 0

Played == gameState.previousGameKey

\* C8 (as claimed): for a catalog of size >= 2*historySize+1 the selected
\* round is never the most recently played one (the newest entry of
\* recentGames), so no game is started twice in a row.
NoImmediateRepeat ==
    (Selected /\ catalogSize >= 2 * HISTORY_SIZE + 1 /\ recentGames # <<>>)
        => nextGameKey # recentGames[Len(recentGames)]

\* C8 (amended): with a non-empty history (catalog size >= 3, which covers
\* every size >= 2*historySize+1 that keeps a history) the selection is made
\* on the weighted branch: the selected round always has a strictly positive
\* weight, and the most recently played round is not excluded but keeps a
\* weight between 20 and 60, below the 100 of a round absent from the
\* history.
RecentRoundStaysEligible ==
    Selected =>
        /\ (catalogSize >= 3) <=> (branch = "weighted")
        /\ (catalogSize >= 2 * HISTORY_SIZE + 1 /\ recentGames # <<>>) =>
              branch = "weighted"
        /\ branch = "weighted" =>
              /\ nextGameKey \in MICROGAMES
              /\ Weight(nextGameKey, recentGames) >= AgeWeight
              /\ recentGames # <<>> =>
                    /\ Played = recentGames[Len(recentGames)]
                    /\ Weight(Played, recentGames) >= AgeWeight
                    /\ Weight(Played, recentGames) <= MaxHistory * AgeWeight
                    /\ Weight(Played, recentGames) < UnplayedWeight

ImmediateRepeatSelected ==
    /\ Selected /\ branch = "weighted"
    /\ catalogSize = 7
    /\ Len(recentGames) = MaxHistory
    /\ nextGameKey = recentGames[Len(recentGames)]
    /\ nextGameKey = Played

\* C9 (as claimed): every catalog with 2 <= size <= 2*historySize takes the
\* small-catalog fallback and never returns previousGameKey.
SmallCatalogFallback ==
    (Selected /\ catalogSize >= 2 /\ catalogSize <= 2 * HISTORY_SIZE)
        => /\ branch = "few"
           /\ Played # NoKey => nextGameKey # Played

\* C9 (amended): the fallback is taken exactly by the catalogs with
\* size <= historySize+1; with 2 <= size that is size 2, where the selector
\* never returns previousGameKey and returns the other entry.
FewGamesFallback ==
    Selected =>
        /\ (catalogSize <= HISTORY_SIZE + 1) <=> (branch = "few")
        /\ (catalogSize >= 2 /\ catalogSize <= HISTORY_SIZE + 1) =>
              /\ catalogSize = 2
              /\ nextGameKey \in MICROGAMES
              /\ Played # NoKey => nextGameKey = 3 - Played

OtherGameSelected ==
    /\ Selected /\ branch = "few" /\ catalogSize = 2
    /\ Played = 1 /\ recentGames = <<1>> /\ nextGameKey = 2

\* C10 (as claimed): with a catalog of exactly 3 rounds, after a round has
\* been played the next selection is never that round.
ThreeRoundsExcludePlayed ==
    (Selected /\ catalogSize = 3 /\ Played # NoKey) => nextGameKey # Played

\* C10 (amended): with a catalog of exactly 3 rounds the selection after a
\* played round A is made on the weighted branch with history <<A>>, weight
\* 20 for A and 100 for each of the other two (total 220): the selection is
\* a catalog entry, and A itself stays selectable.
ThreeRoundsWeighted ==
    (Selected /\ catalogSize = 3 /\ Played # NoKey) =>
        /\ ~FewGames
        /\ branch = "weighted"
        /\ recentGames = <<Played>>
        /\ Weight(Played, recentGames) = AgeWeight
        /\ \A g \in MICROGAMES \ {Played} :
               Weight(g, recentGames) = UnplayedWeight
        /\ TotalWeight(recentGames) = 2 * UnplayedWeight + AgeWeight
        /\ nextGameKey \in MICROGAMES

PlayedRoundReselected ==
    /\ Selected /\ catalogSize = 3
    /\ recentGames = <<1>> /\ Played = 1 /\ nextGameKey = 1

\* position of the newest occurrence of key in arr, 1-based, 0 when absent
LastIndexOf(arr, key) ==
    IF \E i \in 1..Len(arr) : arr[i] = key
    THEN CHOOSE i \in 1..Len(arr) :
             arr[i] = key /\ \A j \in (i + 1)..Len(arr) : arr[j] # key
    ELSE 0

\* recency rank of a played round: 1 for the most recently played entry
RecencyRank(game, recent) == Len(recent) - LastIndexOf(recent, game) + 1

\* C11: on the weighted path every catalog entry absent from recentGames has
\* weight 100 and an entry present in recentGames has weight r*20, r its
\* recency rank (1 = most recently played); every weight is strictly
\* positive and a recent entry's weight is at most 60, below 100.
WeightsByRecencyRank ==
    (Selected /\ branch = "weighted") =>
        \A g \in MICROGAMES :
            /\ Weight(g, recentGames) > 0
            /\ IF LastIndexOf(recentGames, g) = 0
               THEN Weight(g, recentGames) = UnplayedWeight
               ELSE /\ Weight(g, recentGames) =
                           RecencyRank(g, recentGames) * AgeWeight
                    /\ Weight(g, recentGames) <= MaxHistory * AgeWeight
                    /\ Weight(g, recentGames) < UnplayedWeight

\* the last Min(HISTORY_SIZE, Len(played)) entries of played
LastStarted(played) ==
    LET keep == Min(HISTORY_SIZE, Len(played)) IN
    SubSeq(played, Len(played) - keep + 1, Len(played))

\* C12: recentGames never holds more than historySize = min(3,
\* floor(catalogSize/2)) entries; it changes only when a transition starts a
\* round, and then it becomes the previous list with the started key added
\* at the end and, beyond the bound, its oldest entry removed, so it is
\* always the last historySize started games in play order.
HistoryBoundedFifo ==
    /\ [](Len(recentGames) <= HISTORY_SIZE)
    /\ [][/\ (scene = "TransitionScene" /\ scene' = "Microgame") =>
                recentGames' = LastStarted(Append(recentGames, nextGameKey))
          /\ recentGames' # recentGames =>
                (scene = "TransitionScene" /\ scene' = "Microgame")]_vars

OldestEntryEvicted ==
    /\ scene = "Microgame" /\ cur = "title" /\ ~gameReady
    /\ catalogSize = 6
    /\ gameState.lives = 1 /\ gameState.gamesCompleted = 0
    /\ recentGames = <<2, 3, 4>>
    /\ gameKey = 4

\* C13: for a non-empty catalog every TransitionScene run selects one key of
\* the catalog, and the step that leaves the scene starts that key, stores
\* it in previousGameKey and pushes it on recentGames (where it is the
\* newest entry whenever a history is kept).
SelectedRoundStarted ==
    /\ [](Selected => nextGameKey \in MICROGAMES)
    /\ [][(scene = "TransitionScene" /\ transitionCalls > 0
             /\ catalogSize > 0) =>
             /\ scene' = "Microgame"
             /\ nextGameKey' = nextGameKey
             /\ gameKey' = nextGameKey
             /\ cur' = "title"
             /\ gameState'.previousGameKey = nextGameKey
             /\ IF HISTORY_SIZE = 0
                THEN recentGames' = <<>>
                ELSE /\ recentGames' # <<>>
                     /\ recentGames'[Len(recentGames')] = nextGameKey]_vars

SelectedKeyRunning ==
    /\ scene = "Microgame" /\ cur = "title" /\ ~gameReady
    /\ catalogSize = 5
    /\ nextGameKey = 3 /\ gameKey = 3 /\ Played = 3
    /\ recentGames = <<5, 3>>

(***************************************************************************)
(* Registry properties (specification SpecRegistry)                        *)
(***************************************************************************)
\* C14: when the catalog is empty or the selected key has no registered
\* scene, the step that leaves TransitionScene starts no round, leaves
\* recentGames and previousGameKey unchanged and shows the title screen.
NoRoundFallsBackToTitle ==
    [][(scene = "TransitionScene" /\ transitionCalls > 0
          /\ (catalogSize = 0 \/ nextGameKey \notin registered)) =>
            /\ scene' = "TitleScene"
            /\ recentGames' = recentGames
            /\ gameState'.previousGameKey = gameState.previousGameKey
            /\ gameState' = gameState
            /\ UNCHANGED roundVars]_vars

UnregisteredKeyAtTitle ==
    /\ scene = "TitleScene"
    /\ nextGameKey \in MICROGAMES \ registered
    /\ branch = "few"
    /\ gameKey = NoKey /\ recentGames = <<>>
    /\ gameState.previousGameKey = NoKey

(***************************************************************************)
(* Round properties (specification Spec)                                   *)
(***************************************************************************)
\* C15: in every round cleanupControls and the removal of the countdown
\* timer have run 0 times before endGame and exactly once after it, the
\* timer never fires again after endGame, and a round is left only after
\* both have run once: after a declared win, a declared fail, a timeout
\* without declaration, and in debug mode alike.
TeardownExactlyOnce ==
    /\ [](scene = "Microgame" =>
            /\ cleanupCalls = (IF gameEnded THEN 1 ELSE 0)
            /\ timerRemoves = (IF gameEnded THEN 1 ELSE 0)
            /\ gameEnded => ~timerActive)
    /\ [][(scene = "Microgame" /\ scene' # "Microgame") =>
             /\ gameEnded
             /\ cleanupCalls = 1 /\ timerRemoves = 1
             /\ cleanupCalls' = 1 /\ timerRemoves' = 1]_vars

DebugTimeoutTornDown ==
    /\ scene = "Microgame" /\ cur = "debug" /\ gameEnded
    /\ firstOutcome = "none"
    /\ cleanupCalls = 1 /\ timerRemoves = 1 /\ ~timerActive

\* C16: a round whose countdown reaches zero with neither setWinState nor
\* setFailState having taken effect is resolved as failed: lives decreases
\* by 1 and score is unchanged; and the countdown reaching zero always
\* resolves the round.
UndeclaredTimeoutFails ==
    [][/\ (Resolving /\ ~hasWon /\ ~hasFailed) =>
             /\ timeRemaining > 0 /\ timeRemaining' <= 0
             /\ ~won'
             /\ cur' = cur
             /\ CurState'.lives = CurState.lives - 1
             /\ CurState'.score = CurState.score
             /\ CurState'.gamesCompleted = CurState.gamesCompleted
       /\ (scene = "Microgame" /\ timeRemaining > 0 /\ timeRemaining' <= 0) =>
             Resolving]_vars

SilentRoundCostsLife ==
    /\ scene = "Microgame" /\ cur = "title" /\ gameEnded
    /\ firstOutcome = "none" /\ ~hasWon /\ ~hasFailed /\ ~won
    /\ timeRemaining <= 0
    /\ gameState.lives = 3 /\ gameState.score = 0

\* C17: in every resolved round outcome feedback has been triggered exactly
\* once: exactly one of showSuccessFeedback / showFailureFeedback has run,
\* one time, and it is the success feedback exactly when the round is
\* scored as a win.
FeedbackExactlyOnce ==
    (scene = "Microgame" /\ gameEnded) =>
        /\ successFeedback + failureFeedback = 1
        /\ won <=> successFeedback = 1

\* C18: a round ends as soon as a win or fail state is set: the step in
\* which setWinState / setFailState takes effect also runs endGame.
DeclaredOutcomeEndsRound ==
    [][((~hasWon /\ hasWon') \/ (~hasFailed /\ hasFailed')) => gameEnded']_vars

\* C19: every step that starts a round, a replay of an already played scene
\* included, leaves hasWon, hasFailed, gameEnded and gameReady false and
\* timeRemaining at the round's duration, whatever their values were.
RoundStartsReset ==
    [][scene' = "Microgame" /\ (scene # "Microgame" \/ gameKey' # gameKey) =>
          /\ hasWon' = FALSE
          /\ hasFailed' = FALSE
          /\ gameEnded' = FALSE
          /\ gameReady' = FALSE
          /\ timeRemaining' = GameDuration]_vars

SceneReplayedAfterWin ==
    /\ scene = "Microgame" /\ cur = "title"
    /\ catalogSize = 4
    /\ recentGames = <<1, 1>> /\ gameKey = 1
    /\ gameState.gamesCompleted = 1 /\ gameState.lives = 4 /\ won
    /\ ~hasWon /\ ~hasFailed /\ ~gameEnded /\ ~gameReady
    /\ timeRemaining = GameDuration

SessionFields(gs) == <<gs.lives, gs.score, gs.speed, gs.gamesCompleted>>

\* C20: lives, score, speed and gamesCompleted of a session state change
\* only in the step in which endGame resolves a round played on that state;
\* the steps of TitleScene and TransitionScene and the steps in which
\* setWinState / setFailState or a round hook declare an outcome leave them
\* unchanged (the debug menu builds a fresh state for each launch).
SessionStateWrittenByEndGame ==
    [][/\ SessionFields(gameState') # SessionFields(gameState) =>
             /\ scene = "Microgame" /\ Resolving
             /\ cur = "title" /\ timeRemaining' <= 0
       /\ SessionFields(debugState') # SessionFields(debugState) =>
             \/ scene = "Microgame" /\ Resolving /\ cur = "debug"
             \/ scene = "DebugMenuScene" /\ debugState' = FreshDebugState
       /\ (scene \in {"TitleScene", "TransitionScene"}
             \/ (~hasWon /\ hasWon') \/ (~hasFailed /\ hasFailed')
             \/ successFeedback' > successFeedback
             \/ failureFeedback' > failureFeedback) =>
             /\ SessionFields(gameState') = SessionFields(gameState)
             /\ SessionFields(debugState') = SessionFields(debugState)]_vars

ScoreCarriedThroughTransition ==
    /\ scene = "TransitionScene" /\ lastGameWon
    /\ gameState.lives = 3 /\ gameState.score = 200
    /\ gameState.gamesCompleted = 2 /\ gameState.speed = 10

(***************************************************************************)
(* Session properties, continued (specification Spec)                      *)
(***************************************************************************)
\* C21: a round launched from the debug menu runs on a fresh state with
\* debugMode = true, and the step that leaves it always shows the title
\* screen, after a win and after a fail alike, never TransitionScene, and
\* leaves the session state of the title screen untouched.
DebugRoundReturnsToTitle ==
    /\ [](cur = "debug" => debugState.debugMode)
    /\ [][/\ (scene = "DebugMenuScene" /\ scene' = "Microgame") =>
                (cur' = "debug" /\ debugState' = FreshDebugState)
          /\ (scene = "Microgame" /\ cur = "debug" /\ scene' # "Microgame") =>
                /\ gameEnded
                /\ scene' = "TitleScene"
                /\ gameState' = gameState]_vars

DebugFailBackAtTitle ==
    /\ scene = "TitleScene" /\ cur = "debug"
    /\ gameEnded /\ ~won /\ hasFailed
    /\ debugState.lives = 3 /\ debugState.debugMode

\* C22: from lives 4, score 0, speed 1.0: a win gives score 100,
\* gamesCompleted 1, lives 4; a fail then gives lives 3; the next wins count
\* gamesCompleted up to 5 with speed staying 1.0 until the 5th win makes it
\* 1.2; further fails take lives to 2, 1, 0, and a finished round shows the
\* title screen exactly when lives is 0.
ScenarioFollowed ==
    /\ [][(Resolving /\ cur = "title") =>
             LET gs == gameState
                 after == <<gameState'.lives, gameState'.score,
                            gameState'.gamesCompleted, gameState'.speed>>
             IN  /\ (won' /\ SessionFields(gs) = <<4, 0, 10, 0>>) =>
                        after = <<4, 100, 1, 10>>
                 /\ (~won' /\ SessionFields(gs) = <<4, 100, 10, 1>>) =>
                        after = <<3, 100, 1, 10>>
                 /\ (won' /\ gs.lives = 3 /\ gs.gamesCompleted \in 1..3
                       /\ gs.score = 100 * gs.gamesCompleted /\ gs.speed = 10) =>
                        after = <<3, gs.score + 100, gs.gamesCompleted + 1, 10>>
                 /\ (won' /\ SessionFields(gs) = <<3, 400, 10, 4>>) =>
                        after = <<3, 500, 5, 12>>
                 /\ (~won' /\ gs.lives \in 1..3 /\ gs.gamesCompleted = 5
                       /\ gs.score = 500 /\ gs.speed = 12) =>
                        after = <<gs.lives - 1, 500, 5, 12>>]_vars
    /\ [][(/\ scene = "Microgame" /\ cur = "title" /\ scene' # "Microgame"
           /\ gameState.lives \in 0..3 /\ gameState.gamesCompleted = 5
           /\ gameState.score = 500 /\ ~won) =>
             /\ (scene' = "TitleScene") <=> (gameState.lives = 0)
             /\ (scene' = "TransitionScene") <=> (gameState.lives > 0)]_vars

FourthFailureEndsSession ==
    /\ scene = "TitleScene" /\ cur = "title"
    /\ gameEnded /\ ~won
    /\ gameState.lives = 0 /\ gameState.score = 500
    /\ gameState.gamesCompleted = 5 /\ gameState.speed = 12

(***************************************************************************)
(* Round-logic properties (specifications SpecSelector, Spec, SpecLive)    *)
(***************************************************************************)
\* C23: onGameUpdate runs only while the round is active: never before the
\* delayed call of create has set gameReady and never after endGame; what
\* the hooks of DodgeGame and FlappyFeatherGame declare is declared in an
\* active round.
HookOnlyWhileActive ==
    /\ [](~hookOutsideActive)
    /\ [][/\ (scene = "Microgame" /\ gameKey = DodgeGame
                /\ ~hasWon /\ hasWon') =>
                (gameReady /\ ~gameEnded /\ ~gameEnded')
          /\ (scene = "Microgame" /\ gameKey = FlappyFeatherGame
                /\ failureFeedback' > failureFeedback) =>
                (gameReady /\ ~gameEnded /\ ~gameEnded')]_vars

DodgeWonByHook ==
    /\ scene = "Microgame" /\ gameKey = DodgeGame
    /\ gameReady /\ ~gameEnded
    /\ hasWon /\ ~hasFailed /\ successFeedback = 1
    /\ timeRemaining <= DodgeWinWindow
    /\ ~hookOutsideActive

\* C24: a DodgeGame round in which the player is never hit (setFailState
\* never takes effect) is resolved as won, however frame updates and
\* countdown ticks interleave.
DodgeUnhitWins ==
    [][(scene = "Microgame" /\ gameKey = DodgeGame /\ Resolving
          /\ ~hasFailed) =>
            /\ won'
            /\ CurState'.score = CurState.score + ScoreStep
            /\ CurState'.lives = CurState.lives]_vars

\* C25: once the round has ended, a call of setWinState or setFailState
\* that arrives late (the generic calls, the completion of the SneezeGame
\* tween) changes neither hasWon / hasFailed nor the session state and
\* triggers no feedback.
LateDeclarationIgnored ==
    [][(scene = "Microgame" /\ gameEnded /\ scene' = "Microgame") =>
          /\ gameEnded'
          /\ hasWon' = hasWon /\ hasFailed' = hasFailed
          /\ firstOutcome' = firstOutcome
          /\ successFeedback' = successFeedback
          /\ failureFeedback' = failureFeedback
          /\ gameState' = gameState /\ debugState' = debugState
          /\ won' = won]_vars

SneezeCompletedLate ==
    /\ scene = "Microgame" /\ gameKey = SneezeGame
    /\ gameEnded /\ sPresses = WIN_THRESHOLD /\ tween = "complete"
    /\ ~hasWon /\ ~won /\ successFeedback = 0

\* C26: the countdown of a round only moves down, by 50 per tick; under
\* weak fairness of the delayed call of create, of the countdown timer and
\* of the delayed call of endGame, every started round reaches endGame with
\* timeRemaining <= 0 and is then left for TransitionScene or TitleScene.
RoundsTerminate ==
    /\ [][(scene = "Microgame" /\ scene' = "Microgame"
             /\ timeRemaining' # timeRemaining) =>
                timeRemaining' = timeRemaining - TimerDelay]_vars
    /\ (scene = "Microgame" /\ ~gameEnded)
          ~> (scene = "Microgame" /\ gameEnded /\ timeRemaining <= 0)
    /\ (scene = "Microgame" /\ gameEnded)
          ~> (scene \in {"TransitionScene", "TitleScene"})

TimedOutRoundHandedOn ==
    /\ scene = "TransitionScene" /\ ~lastGameWon
    /\ gameEnded /\ timeRemaining <= 0 /\ firstOutcome = "none"
    /\ gameState.lives = 3 /\ repeatCount = CountdownRepeat + 1

\* C27: a FlappyFeatherGame round in which the feather never leaves the
\* bounds (setFailState never takes effect) is resolved as won: score + 100
\* and no life lost.
FlappyInBoundsWins ==
    [][(scene = "Microgame" /\ gameKey = FlappyFeatherGame /\ Resolving
          /\ ~hasFailed /\ failureFeedback = 0) =>
            /\ won'
            /\ CurState'.score = CurState.score + ScoreStep
            /\ CurState'.lives = CurState.lives]_vars

\* C28: a SneezeGame round in which the press that reaches WIN_THRESHOLD
\* happened before the countdown expired is resolved as won.
SneezeThresholdWins ==
    [][(scene = "Microgame" /\ gameKey = SneezeGame /\ Resolving
          /\ sPresses >= WIN_THRESHOLD) => won']_vars

\* C29: in every TransitionScene run the countdown text shows 3, then 2,
\* then 1, one number per firing of the 1-second timer; transitionToGame is
\* called only after 1 has been shown, and once; the scene is left by one
\* scene start, of the selected microgame or of the title screen, with at
\* most one key pushed on the history.
CountdownThenOneTransition ==
    /\ [](scene = "TransitionScene" =>
            /\ transitionCalls \in 0..1
            /\ transitionCalls = 1 =>
                  (countdownText = 1 /\ countdown = 0 /\ repeatCount = 0))
    /\ [][/\ countdownText' # countdownText =>
                \/ scene # "TransitionScene" /\ scene' = "TransitionScene"
                      /\ countdownText' = NoText
                \/ scene = "TransitionScene" /\ scene' = "TransitionScene"
                      /\ <<countdownText, countdownText'>> \in
                            {<<NoText, 3>>, <<3, 2>>, <<2, 1>>}
          /\ transitionCalls' > transitionCalls =>
                (countdownText = 1 /\ transitionCalls = 0)
          /\ (scene = "TransitionScene" /\ scene' # "TransitionScene") =>
                /\ transitionCalls = 1 /\ countdownText = 1
                /\ scene' \in {"Microgame", "TitleScene"}
                /\ recentGames' \in
                      {recentGames,
                       LastStarted(Append(recentGames, nextGameKey))}]_vars

CountedDownRoundStarted ==
    /\ scene = "Microgame" /\ cur = "title" /\ gameReady /\ ~gameEnded
    /\ countdownText = 1 /\ countdown = 0 /\ repeatCount = 0
    /\ transitionCalls = 1
    /\ gameKey = nextGameKey /\ recentGames = <<gameKey>>

\* C30: in every reachable state score equals 100 * gamesCompleted, and the
\* score of a session state never decreases (the debug menu starts each
\* launch on a new state object).
ScoreTracksWins ==
    /\ [](/\ gameState.score = ScoreStep * gameState.gamesCompleted
          /\ debugState.score = ScoreStep * debugState.gamesCompleted)
    /\ [][/\ gameState'.score >= gameState.score
          /\ \/ debugState'.score >= debugState.score
             \/ (scene = "DebugMenuScene" /\ debugState' = FreshDebugState)]_vars

ThreeWinsThreeHundred ==
    /\ scene = "TransitionScene" /\ ~lastGameWon
    /\ gameState.score = 300 /\ gameState.gamesCompleted = 3
    /\ gameState.lives = 2

TypeOK ==
    /\ catalogSize \in 0..(MaxCatalog + 1)
    /\ scene \in {"TitleScene", "DebugMenuScene", "TransitionScene", "Microgame",
                 "NoScene"}
    /\ registered \subseteq MICROGAMES
    /\ cleanupCalls \in 0..1 /\ timerRemoves \in 0..1
    /\ successFeedback \in 0..1 /\ failureFeedback \in 0..2
    /\ cur \in {"title", "debug"}
    /\ sPresses \in 0..WIN_THRESHOLD
    /\ tween \in {"none", "running", "complete"}
    /\ hookOutsideActive \in BOOLEAN
    /\ countdown \in 0..CountdownStart
    /\ repeatCount \in 0..(CountdownRepeat + 1)
    /\ countdownText \in {NoText} \cup 1..CountdownStart
    /\ transitionCalls \in 0..1
    /\ nextGameKey \in {NoKey} \cup MICROGAMES
    /\ gameKey \in {NoKey} \cup MICROGAMES
    /\ branch \in {"none", "few", "weighted"}
    /\ firstOutcome \in {"none", "win", "fail"}
    /\ Len(recentGames) <= MaxHistory
====
